---- MODULE Spec2Model ----
(***************************************************************************)
(* Knowledge-graph generator (src/app.py): the "Generate Knowledge Graph"  *)
(* handler, parse_relations and build_graph.                               *)
(*                                                                         *)
(* A Python str is a sequence of tokens.  A token is one character         *)
(* ("[", "]", "{", "}", ",", " ", "NL" for a line feed, "x" for any other  *)
(* character) or one JSON member  "key":"value"  written without blanks,   *)
(* which stands for the characters it is made of (Width).                  *)
(***************************************************************************)
EXTENDS Integers, Sequences, FiniteSets, TLC

VARIABLES pc, content, reply, response_text, triples, g, graph_path,
          messages, calls

vars == <<pc, content, reply, response_text, triples, g, graph_path,
          messages, calls>>

(***************************************************************************)
(* Bounds of the model.                                                    *)
(***************************************************************************)
MaxLead == 17
MaxObjs == 2
MaxTriples == 2

(***************************************************************************)
(* Strings as token sequences.                                             *)
(***************************************************************************)
Ch(c) == [c |-> c, k |-> "", v |-> ""]
Fld(k, v) == [c |-> "field", k |-> k, v |-> v]

\* A JSON value that is no string: the array ["x"], decoded to a Python list.
ListVal == "[x]"

Hashable(v) == v # ListVal

\* Number of characters of a token:  "key":"value"  or  "key":["x"]
Width(t) ==
  IF t.c = "field"
  THEN Len(t.k) + 3 + (IF t.v = ListVal THEN 5 ELSE Len(t.v) + 2)
  ELSE 1

\* ---------------------------------------------------------------------------
\* The compiled pattern: "[", blanks, any number of groups, "]", where a group
\* is "{", a lazy run of '.', "}", blanks, an optional ",", blanks.  No flags.
\* ---------------------------------------------------------------------------
IsSpace(t) == t.c \in {" ", "NL"}

\* '.' of a pattern compiled without re.DOTALL: anything but a line feed
DotMatches(t) == t.c # "NL"

\* a greedy run of blanks: the index after the blanks starting at i
RECURSIVE SkipSpace(_, _)
SkipSpace(s, i) ==
  IF i <= Len(s) /\ IsSpace(s[i]) THEN SkipSpace(s, i + 1) ELSE i

\* blanks, an optional ",", blanks
SkipSep(s, i) ==
  LET a == SkipSpace(s, i)
      b == IF a <= Len(s) /\ s[a].c = "," THEN a + 1 ELSE a
  IN  SkipSpace(s, b)

\* The greedy run of groups and the closing "]" from index j: the index of
\* the closing "]" of the first match in backtracking order, 0 when there is
\* none.  TryClose is the lazy run of '.' having consumed s[j+1..k-1].
RECURSIVE MatchGroups(_, _), TryClose(_, _, _)
TryClose(s, j, k) ==
  IF k > Len(s) THEN 0
  ELSE LET viaHere == IF s[k].c = "}"
                      THEN MatchGroups(s, SkipSep(s, k + 1)) ELSE 0
       IN  IF viaHere # 0 THEN viaHere
           ELSE IF DotMatches(s[k]) THEN TryClose(s, j, k + 1) ELSE 0

MatchGroups(s, j) ==
  LET viaGroup == IF j <= Len(s) /\ s[j].c = "{"
                  THEN TryClose(s, j, j + 1) ELSE 0
  IN  IF viaGroup # 0 THEN viaGroup
      ELSE IF j <= Len(s) /\ s[j].c = "]" THEN j ELSE 0

\* the pattern anchored at token i: index of the match's last token, or 0
MatchAt(s, i) ==
  IF i <= Len(s) /\ s[i].c = "[" THEN MatchGroups(s, SkipSpace(s, i + 1)) ELSE 0

\* Pattern.search(string, pos): the leftmost match starting at a character
\* index >= pos.  The scan is at token i, which starts at character off.
\* [start, stop] are token indices, start = 0 for no match.
RECURSIVE Scan(_, _, _, _)
Scan(s, i, off, pos) ==
  IF i > Len(s) THEN [start |-> 0, stop |-> 0]
  ELSE IF off >= pos /\ MatchAt(s, i) # 0
       THEN [start |-> i, stop |-> MatchAt(s, i)]
       ELSE Scan(s, i + 1, off + Width(s[i]), pos)

PatternSearch(s, pos) == Scan(s, 1, 0, pos)

(***************************************************************************)
(* json.loads on a token sequence.                                         *)
(***************************************************************************)
\* dict[k] = v
Put(d, k, v) == [x \in (DOMAIN d) \cup {k} |-> IF x = k THEN v ELSE d[x]]

JsonFail == [ok |-> FALSE, val |-> <<>>, next |-> 0]

\* members of an object, a member expected at i
RECURSIVE DecodeMembers(_, _, _)
DecodeMembers(s, i, d) ==
  IF i > Len(s) \/ s[i].c # "field" THEN JsonFail
  ELSE LET d2 == Put(d, s[i].k, s[i].v)
           j  == SkipSpace(s, i + 1)
       IN  IF j > Len(s) THEN JsonFail
           ELSE IF s[j].c = "}" THEN [ok |-> TRUE, val |-> d2, next |-> j + 1]
           ELSE IF s[j].c = "," THEN DecodeMembers(s, SkipSpace(s, j + 1), d2)
           ELSE JsonFail

\* an object starting at i
DecodeObject(s, i) ==
  IF i > Len(s) \/ s[i].c # "{" THEN JsonFail
  ELSE LET j == SkipSpace(s, i + 1)
       IN  IF j <= Len(s) /\ s[j].c = "}"
           THEN [ok |-> TRUE, val |-> <<>>, next |-> j + 1]
           ELSE DecodeMembers(s, j, <<>>)

\* elements of an array, an element expected at i
RECURSIVE DecodeElems(_, _, _)
DecodeElems(s, i, acc) ==
  LET o == DecodeObject(s, i)
  IN  IF ~o.ok THEN JsonFail
      ELSE LET j == SkipSpace(s, o.next)
           IN  IF j > Len(s) THEN JsonFail
               ELSE IF s[j].c = "]"
                    THEN [ok |-> TRUE, val |-> Append(acc, o.val), next |-> j + 1]
               ELSE IF s[j].c = ","
                    THEN DecodeElems(s, SkipSpace(s, j + 1), Append(acc, o.val))
               ELSE JsonFail

\* json.loads(s): [ok, val]; ok = FALSE is a JSONDecodeError
JsonLoads(s) ==
  LET i == SkipSpace(s, 1)
  IN  IF i > Len(s) \/ s[i].c # "[" THEN [ok |-> FALSE, val |-> <<>>]
      ELSE LET j == SkipSpace(s, i + 1)
               r == IF j <= Len(s) /\ s[j].c = "]"
                    THEN [ok |-> TRUE, val |-> <<>>, next |-> j + 1]
                    ELSE DecodeElems(s, j, <<>>)
           IN  IF r.ok /\ SkipSpace(s, r.next) > Len(s)
               THEN [ok |-> TRUE, val |-> r.val]
               ELSE [ok |-> FALSE, val |-> <<>>]

(***************************************************************************)
(* parse_relations                                                         *)
(***************************************************************************)
\* re.DOTALL, which the code hands to Pattern.search as its second argument:
\* the position the search starts at
DOTALL == 16

Keys == <<"subject", "subject_type", "relation", "object", "object_type",
          "context">>

Str(s) == [type |-> "str", s |-> s]
None == [type |-> "NoneType", s |-> <<>>]

\* the first (element, key) the validation loop finds missing, <<0, 0>> if none
MissingKey(ts) ==
  LET bad == {p \in (1..Len(ts)) \X (1..Len(Keys)) : Keys[p[2]] \notin DOMAIN ts[p[1]]}
  IN  IF bad = {} THEN <<0, 0>>
      ELSE CHOOSE p \in bad :
             \A q \in bad : p[1] < q[1] \/ (p[1] = q[1] /\ p[2] <= q[2])

\* the body of the try block: [exc, val], exc = "" when it returns val
ParseTry(rt) ==
  IF rt.type # "str" THEN [exc |-> "TypeError", val |-> <<>>]
  ELSE LET m == PatternSearch(rt.s, DOTALL)
       IN  IF m.start = 0 THEN [exc |-> "ValueError", val |-> <<>>]
           ELSE LET json_text == SubSeq(rt.s, m.start, m.stop)
                    dec == JsonLoads(json_text)
                IN  IF ~dec.ok THEN [exc |-> "JSONDecodeError", val |-> <<>>]
                    ELSE IF MissingKey(dec.val) # <<0, 0>>
                         THEN [exc |-> "ValueError", val |-> <<>>]
                         ELSE [exc |-> "", val |-> dec.val]

\* a handler that catches ValueError only (JSONDecodeError derives from it)
IsValueError(e) == e \in {"ValueError", "JSONDecodeError"}

\* except Exception: every class the body raises derives from Exception
IsException(e) == e \in {"TypeError", "ValueError", "JSONDecodeError"}

Msg(kind, text) == [kind |-> kind, text |-> text]

\* parse_relations(response_text): the list returned, what st.error showed,
\* and the exception that left the function ("" for a normal return)
parse_relations(rt) ==
  LET r == ParseTry(rt)
  IN  IF r.exc = "" THEN [ret |-> r.val, shown |-> <<>>, raised |-> ""]
      ELSE IF IsException(r.exc)
           THEN [ret |-> <<>>,
                 shown |-> <<Msg("error", "Failed to parse enriched JSON")>>,
                 raised |-> ""]
           ELSE [ret |-> <<>>, shown |-> <<>>, raised |-> r.exc]

(***************************************************************************)
(* build_graph on networkx.DiGraph                                         *)
(***************************************************************************)
EmptyGraph == [nodes |-> <<>>, attr |-> <<>>, edges |-> <<>>]

Range(q) == {q[i] : i \in 1..Len(q)}

\* dict.get(k, default)
Get(d, k, default) == IF k \in DOMAIN d THEN d[k] ELSE default

\* a node list that grows on every call
add_nodeAppend(gr, n, title, group) ==
  [gr EXCEPT !.nodes = Append(@, n),
             !.attr  = Put(@, n, [title |-> title, group |-> group])]

\* attributes that are set only when the node is new
add_nodeKeepFirst(gr, n, title, group) ==
  IF n \in Range(gr.nodes) THEN gr
  ELSE [gr EXCEPT !.nodes = Append(@, n),
                  !.attr  = Put(@, n, [title |-> title, group |-> group])]

\* DiGraph.add_node(n, title=, group=): a new key is appended to the node
\* dict, an existing one keeps its place; the attributes are updated
add_node(gr, n, title, group) ==
  [gr EXCEPT !.nodes = IF n \in Range(@) THEN @ ELSE Append(@, n),
             !.attr  = Put(@, n, [title |-> title, group |-> group])]

\* DiGraph.add_edge(u, v, label=, title=): one attribute dict per (u, v)
add_edge(gr, u, v, label, title) ==
  LET e == [u |-> u, v |-> v, label |-> label, title |-> title]
      at == {i \in 1..Len(gr.edges) : gr.edges[i].u = u /\ gr.edges[i].v = v}
  IN  IF at = {} THEN [gr EXCEPT !.edges = Append(@, e)]
      ELSE [gr EXCEPT !.edges = [i \in 1..Len(@) |-> IF i \in at THEN e ELSE @[i]]]

\* one iteration of the loop: [exc, g]
BuildStep(gr, triplet) ==
  IF \E k \in {"subject", "object", "relation"} : k \notin DOMAIN triplet
  THEN [exc |-> "KeyError", g |-> gr]
  ELSE LET subj == triplet["subject"]
           obj == triplet["object"]
           rel == triplet["relation"]
           subj_type == Get(triplet, "subject_type", "Entity")
           obj_type == Get(triplet, "object_type", "Entity")
           context == Get(triplet, "context", "")
       IN  IF ~Hashable(subj) \/ ~Hashable(obj)
           THEN [exc |-> "TypeError", g |-> gr]
           ELSE [exc |-> "",
                 g |-> add_edge(add_node(add_node(gr, subj, <<subj_type, subj>>, subj_type),
                                         obj, <<obj_type, obj>>, obj_type),
                                subj, obj, rel, context)]

RECURSIVE BuildLoop(_, _, _)
BuildLoop(ts, i, gr) ==
  IF i > Len(ts) THEN [exc |-> "", g |-> gr]
  ELSE LET r == BuildStep(gr, ts[i])
       IN  IF r.exc # "" THEN r ELSE BuildLoop(ts, i + 1, r.g)

build_graph(ts) == BuildLoop(ts, 1, EmptyGraph)

\* visualize_graph(g): the path of the HTML file written
visualize_graph(gr) == "graph.html"

(***************************************************************************)
(* The extractor's replies: response.text as the model service may write   *)
(* it.  [lead] and [trail] characters of prose surround a JSON array of    *)
(* the objects objs, laid out as layout says.                              *)
(***************************************************************************)
Noise(n) == [i \in 1..n |-> Ch("x")]

RECURSIVE Join(_, _)
Join(parts, sep) ==
  IF parts = <<>> THEN <<>>
  ELSE IF Len(parts) = 1 THEN parts[1]
  ELSE parts[1] \o sep \o Join(Tail(parts), sep)

PresentKeys(d) == SelectSeq(Keys, LAMBDA k : k \in DOMAIN d)

\* one object; "pretty" puts every member on a line of its own
RenderObject(d, layout) ==
  LET ks == PresentKeys(d)
      members == [i \in 1..Len(ks) |-> <<Fld(ks[i], d[ks[i]])>>]
  IN  IF layout = "pretty"
      THEN <<Ch("{"), Ch("NL"), Ch(" ")>>
           \o Join(members, <<Ch(","), Ch("NL"), Ch(" ")>>)
           \o <<Ch("NL"), Ch("}")>>
      ELSE <<Ch("{")>> \o Join(members, <<Ch(",")>>) \o <<Ch("}")>>

RenderArray(objs, layout) ==
  LET items == [i \in 1..Len(objs) |-> RenderObject(objs[i], layout)]
  IN  CASE layout = "line" ->
             <<Ch("[")>> \o Join(items, <<Ch(",")>>) \o <<Ch("]")>>
        [] layout = "trailing_comma" ->
             <<Ch("[")>> \o Join(items, <<Ch(",")>>) \o <<Ch(","), Ch("]")>>
        [] layout \in {"rows", "pretty"} ->
             <<Ch("["), Ch("NL")>> \o Join(items, <<Ch(","), Ch("NL")>>)
             \o <<Ch("NL"), Ch("]")>>
        [] OTHER -> <<>>

RenderReply(r) == Noise(r.lead) \o RenderArray(r.objs, r.layout) \o Noise(r.trail)

\* a JSON object with all six members
Full(s, st, r, o, ot, c) ==
  [k \in Range(Keys) |->
     CASE k = "subject" -> s [] k = "subject_type" -> st [] k = "relation" -> r
       [] k = "object" -> o [] k = "object_type" -> ot [] OTHER -> c]

Only(d, ks) == [k \in ks |-> d[k]]

Required == {"subject", "relation", "object"}

ParisFull == Full("Paris", "City", "capital of", "France", "Country", "c1")
ParisBare == Only(ParisFull, Required)
NoObject == Only(Full("France", "Country", "borders", "Spain", "Country", "c2"),
                 Range(Keys) \ {"object"})
ListSubject == Full(ListVal, "Person", "knows", "Paris", "City", "c3")

ObjectPool == {ParisFull, ParisBare, NoObject, ListSubject}

RECURSIVE SeqsUpTo(_, _)
SeqsUpTo(S, n) ==
  IF n = 0 THEN {<<>>}
  ELSE LET shorter == SeqsUpTo(S, n - 1)
       IN  shorter \cup {Append(q, x) : q \in shorter, x \in S}

Layouts == {"line", "rows", "pretty", "trailing_comma"}

Replies ==
  [lead : 0..MaxLead, objs : SeqsUpTo(ObjectPool, MaxObjs), layout : Layouts,
   trail : {0, 2}]
  \cup [lead : 0..MaxLead, objs : {<<>>}, layout : {"prose"}, trail : {0}]

NoReply == [lead |-> 0, objs |-> <<>>, layout |-> "none", trail |-> 0]

(***************************************************************************)
(* The "Generate Knowledge Graph" handler.  content is a sequence of       *)
(* blanks (" ", "NL") and words.                                           *)
(***************************************************************************)
ParisText == <<"Paris", " ", "is", " ", "the", " ", "capital", " ", "of",
               " ", "France.">>

Contents == {<<>>, <<" ", "NL">>, ParisText}

\* str.strip()
RECURSIVE LStrip(_)
LStrip(c) == IF c # <<>> /\ Head(c) \in {" ", "NL"} THEN LStrip(Tail(c)) ELSE c

RECURSIVE RStrip(_)
RStrip(c) ==
  IF c # <<>> /\ c[Len(c)] \in {" ", "NL"}
  THEN RStrip(SubSeq(c, 1, Len(c) - 1)) ELSE c

Strip(c) == RStrip(LStrip(c))

Init ==
  /\ pc = "idle"
  /\ content = <<>>
  /\ reply = NoReply
  /\ response_text = None
  /\ triples = <<>>
  /\ g = EmptyGraph
  /\ graph_path = ""
  /\ messages = <<>>
  /\ calls = <<>>

\* the button is pressed: lines 148-153, up to the call of the extractor
Click(c) ==
  /\ pc = "idle"
  /\ content' = c
  /\ IF Strip(c) = <<>>
     THEN /\ messages' = <<Msg("warning", "Please provide content to analyze.")>>
          /\ calls' = calls
          /\ pc' = "done"
     ELSE /\ messages' = messages
          /\ calls' = Append(calls, "extract_relations_gemini")
          /\ pc' = "extracting"
  /\ UNCHANGED <<reply, response_text, triples, g, graph_path>>

\* the extractor returns response.text: lines 153-161
ExtractorReturns(r) ==
  /\ pc = "extracting"
  /\ reply' = r
  /\ response_text' = Str(RenderReply(r))
  /\ \E p \in {parse_relations(Str(RenderReply(r)))} :
     \E b \in {build_graph(p.ret)} :
         IF p.raised # ""
         THEN /\ calls' = Append(calls, "parse_relations")
              /\ messages' = messages
              /\ pc' = "crashed"
              /\ UNCHANGED <<triples, g, graph_path>>
         ELSE /\ triples' = p.ret
              /\ IF p.ret # <<>>
                 THEN IF b.exc # ""
                      THEN /\ calls' = calls \o <<"parse_relations", "build_graph">>
                           /\ messages' = messages \o p.shown
                           /\ pc' = "crashed"
                           /\ UNCHANGED <<g, graph_path>>
                      ELSE /\ calls' = calls \o <<"parse_relations", "build_graph",
                                                  "visualize_graph">>
                           /\ g' = b.g
                           /\ graph_path' = visualize_graph(b.g)
                           /\ messages' = messages \o p.shown
                                 \o <<Msg("success", "Knowledge Graph Generated!"),
                                      Msg("html", "graph.html")>>
                           /\ pc' = "done"
                 ELSE /\ calls' = Append(calls, "parse_relations")
                      /\ messages' = messages \o p.shown
                            \o <<Msg("warning", "No relationships found")>>
                      /\ pc' = "done"
                      /\ UNCHANGED <<g, graph_path>>
  /\ UNCHANGED content

\* a handler that calls the extractor again when it raises
ExtractorRetries ==
  /\ pc = "extracting"
  /\ Len(calls) < 3
  /\ calls' = Append(calls, "extract_relations_gemini")
  /\ UNCHANGED <<pc, content, reply, response_text, triples, g, graph_path,
                 messages>>

\* model.generate_content or response.text raises: nothing catches it, the
\* script run ends
ExtractorFails ==
  /\ pc = "extracting"
  /\ pc' = "failed"
  /\ UNCHANGED <<content, reply, response_text, triples, g, graph_path,
                 messages, calls>>

\* the next run of the script starts from nothing
Rerun ==
  /\ pc \in {"done", "failed", "crashed"}
  /\ pc' = "idle"
  /\ content' = <<>>
  /\ reply' = NoReply
  /\ response_text' = None
  /\ triples' = <<>>
  /\ g' = EmptyGraph
  /\ graph_path' = ""
  /\ messages' = <<>>
  /\ calls' = <<>>

Next ==
  \/ \E c \in Contents : Click(c)
  \/ \E r \in Replies : ExtractorReturns(r)
  \/ ExtractorFails
  \/ Rerun

Spec == Init /\ [][Next]_vars

(***************************************************************************)
(* parse_relations called on its own, on a reply or on None.               *)
(***************************************************************************)
InitParse ==
  /\ pc = "parse_call"
  /\ reply \in Replies \cup {NoReply}
  /\ response_text = IF reply = NoReply THEN None ELSE Str(RenderReply(reply))
  /\ content = <<>>
  /\ triples = <<>>
  /\ g = EmptyGraph
  /\ graph_path = ""
  /\ messages = <<>>
  /\ calls = <<>>

ParseCall ==
  /\ pc = "parse_call"
  /\ \E p \in {parse_relations(response_text)} :
       /\ triples' = p.ret
       /\ messages' = p.shown
       /\ pc' = IF p.raised = "" THEN "parse_returned" ELSE "parse_raised"
  /\ calls' = <<"parse_relations">>
  /\ UNCHANGED <<content, reply, response_text, g, graph_path>>

NextParse == ParseCall

SpecParse == InitParse /\ [][NextParse]_vars

(***************************************************************************)
(* build_graph called on its own, on a list of dicts.                      *)
(***************************************************************************)
Names == {"Paris", "France", "paris"}
Relations == {"capital of", "knows"}

\* a dict with the three required keys, and the optional ones when typed
Triple(s, r, o, typed) ==
  IF typed THEN Full(s, "City", r, o, "Country", "ctx")
  ELSE Only(Full(s, "", r, o, "", ""), Required)

TriplePool ==
  {Triple(s, r, o, typed) : s \in Names, r \in Relations, o \in Names,
                            typed \in BOOLEAN}
  \cup {NoObject, ListSubject}

TripleLists == SeqsUpTo(TriplePool, MaxTriples)

InitBuild ==
  /\ pc = "build_call"
  /\ triples \in TripleLists
  /\ content = <<>>
  /\ reply = NoReply
  /\ response_text = None
  /\ g = EmptyGraph
  /\ graph_path = ""
  /\ messages = <<>>
  /\ calls = <<>>

BuildCall ==
  /\ pc = "build_call"
  /\ \E b \in {build_graph(triples)} :
       IF b.exc = ""
       THEN g' = b.g /\ pc' = "build_returned"
       ELSE g' = g /\ pc' = "build_raised"
  /\ calls' = <<"build_graph">>
  /\ UNCHANGED <<content, reply, response_text, triples, graph_path, messages>>

NextBuild == BuildCall

SpecBuild == InitBuild /\ [][NextBuild]_vars

(***************************************************************************)
(* Properties                                                              *)
(***************************************************************************)
ErrorShown == \E i \in 1..Len(messages) : messages[i].kind = "error"

\* the reply holds a JSON array (the layouts that are valid JSON)
HoldsArray(r) == r.layout \in {"line", "rows", "pretty"}

\* an object with all six members, every value a string
IsFullTriple(d) ==
  /\ DOMAIN d = Range(Keys)
  /\ \A k \in DOMAIN d : d[k] # ListVal

\* C1: parse_relations returns exactly the triples of a valid JSON array of
\* triple objects embedded in a reply, whatever the leading noise (none
\* included), the trailing noise and the layout (one line or several).
C1_ExtractsEmbeddedArray ==
  (/\ pc = "parse_returned"
   /\ HoldsArray(reply)
   /\ \A i \in 1..Len(reply.objs) : IsFullTriple(reply.objs[i]))
  => triples = reply.objs

\* what json.loads made of the span the search matched ([ok |-> FALSE] when
\* nothing matched or nothing was decoded)
Decoded(rt) ==
  IF rt.type # "str" THEN [ok |-> FALSE, val |-> <<>>]
  ELSE LET m == PatternSearch(rt.s, DOTALL)
       IN  IF m.start = 0 THEN [ok |-> FALSE, val |-> <<>>]
           ELSE JsonLoads(SubSeq(rt.s, m.start, m.stop))

LacksRequired(d) == \E k \in Required : k \notin DOMAIN d

\* ts without its element i
Without(ts, i) == SubSeq(ts, 1, i - 1) \o SubSeq(ts, i + 1, Len(ts))

\* C2: when the decoded array has n >= 2 objects, exactly one of them lacks
\* a required field and the others are well-formed, parse_relations returns
\* the n-1 others and records one issue.
C2_DropsOnlyTheMalformed ==
  (pc = "parse_returned" /\ Decoded(response_text).ok) =>
    LET ts == Decoded(response_text).val
    IN  \A i \in 1..Len(ts) :
          (/\ Len(ts) >= 2
           /\ LacksRequired(ts[i])
           /\ \A j \in (1..Len(ts)) \ {i} : IsFullTriple(ts[j]))
          => (triples = Without(ts, i) /\ Len(messages) = 1)

\* C3: build_graph makes one edge per triple: the number of edges is the
\* length of the list, also for two triples between the same two nodes.
C3_OneEdgePerTriple ==
  pc = "build_returned" => Len(g.edges) = Len(triples)

ParisReply == [lead |-> 0, objs |-> <<ParisBare>>, layout |-> "line", trail |-> 0]

\* C4: content "Paris is the capital of France." and the reply
\* [{"subject":"Paris","relation":"capital of","object":"France"}] end in the
\* rendered graph with the nodes Paris and France and the one edge
\* Paris -> France labelled "capital of".
C4_ParisEndToEnd ==
  (content = ParisText /\ reply = ParisReply /\ pc \in {"done", "crashed"}) =>
    /\ Range(g.nodes) = {"Paris", "France"}
    /\ Len(g.edges) = 1
    /\ g.edges[1].u = "Paris" /\ g.edges[1].v = "France"
    /\ g.edges[1].label = "capital of"
    /\ graph_path # ""
    /\ \E i \in 1..Len(messages) : messages[i].kind = "html"

\* C5: no exception leaves parse_relations, and a reply without "[", an
\* undecodable array, an array with a malformed element and a value that is
\* no string all give zero triples and a reported failure.
C5_NeverRaises ==
  /\ pc # "parse_raised"
  /\ (/\ pc = "parse_returned"
      /\ \/ reply = NoReply
         \/ reply.layout \in {"prose", "trailing_comma"}
         \/ \E i \in 1..Len(reply.objs) : reply.objs[i] = NoObject)
     => (triples = <<>> /\ ErrorShown)

C5_Witness ==
  pc = "parse_returned" /\ response_text = None /\ triples = <<>> /\ ErrorShown

\* the names that occur as subject or object
NamesOf(ts) ==
  {ts[i]["subject"] : i \in 1..Len(ts)} \cup {ts[i]["object"] : i \in 1..Len(ts)}

NoDuplicates(q) == \A i, j \in 1..Len(q) : q[i] = q[j] => i = j

\* C6: after build_graph the graph has exactly one node per distinct name
\* that occurs as subject or object, and one self-loop triple gives one node
\* and one edge from it to itself.
C6_OneNodePerName ==
  pc = "build_returned" =>
    /\ NoDuplicates(g.nodes)
    /\ Range(g.nodes) = NamesOf(triples)
    /\ DOMAIN g.attr = NamesOf(triples)
    /\ (Len(triples) = 1 /\ triples[1]["subject"] = triples[1]["object"]) =>
         /\ Len(g.nodes) = 1
         /\ Len(g.edges) = 1
         /\ g.edges[1].u = triples[1]["subject"]
         /\ g.edges[1].v = triples[1]["subject"]

C6_Witness ==
  /\ pc = "build_returned"
  /\ Len(triples) = 1 /\ triples[1]["subject"] = triples[1]["object"]
  /\ Len(g.nodes) = 1 /\ Len(g.edges) = 1

NoRelationships == Msg("warning", "No relationships found")

\* C7: an empty JSON array as the reply, with or without noise around it,
\* gives an empty list and no reported parse error, build_graph of the empty
\* list has no node and no edge, and the request ends with the
\* "No relationships found" message alone.
C7_EmptyIsNoError ==
  /\ build_graph(<<>>).g.nodes = <<>>
  /\ build_graph(<<>>).g.edges = <<>>
  /\ (pc \in {"done", "crashed"} /\ reply.layout = "line" /\ reply.objs = <<>>)
     => (triples = <<>> /\ ~ErrorShown /\ messages = <<NoRelationships>>)

Count(q, x) == Cardinality({i \in 1..Len(q) : q[i] = x})

\* C8: a request calls the extractor at most once; when the call fails the
\* request ends there: nothing was parsed, built or rendered, no message is
\* shown, and nothing of the request runs afterwards.
C8_ExtractorFailureIsTerminal ==
  /\ [](Count(calls, "extract_relations_gemini") <= 1)
  /\ [](pc = "failed" =>
          /\ calls = <<"extract_relations_gemini">>
          /\ messages = <<>>
          /\ triples = <<>> /\ g = EmptyGraph /\ graph_path = "")
  /\ [][pc = "failed" => (pc' = "idle" /\ calls' = <<>> /\ messages' = <<>>)]_vars

C8_Witness ==
  pc = "failed" /\ calls = <<"extract_relations_gemini">> /\ content = ParisText

\* the (name, type) pairs in the order build_graph writes them: the subject
\* of a triple, then its object
RECURSIVE Writes(_)
Writes(ts) ==
  IF ts = <<>> THEN <<>>
  ELSE <<[name |-> Head(ts)["subject"],
          type |-> IF "subject_type" \in DOMAIN Head(ts)
                   THEN Head(ts)["subject_type"] ELSE "Entity"],
         [name |-> Head(ts)["object"],
          type |-> IF "object_type" \in DOMAIN Head(ts)
                   THEN Head(ts)["object_type"] ELSE "Entity"]>>
       \o Writes(Tail(ts))

Max(S) == CHOOSE x \in S : \A y \in S : y <= x
Min(S) == CHOOSE x \in S : \A y \in S : x <= y

At(w, n) == {i \in 1..Len(w) : w[i].name = n}

\* C9: a node's type is the one of the last occurrence of its name in input
\* order (the object of a triple after its subject), and the nodes are in
\* order of first appearance.
C9_LastTypeWins ==
  pc = "build_returned" =>
    LET w == Writes(triples)
    IN  /\ \A n \in Range(g.nodes) : g.attr[n].group = w[Max(At(w, n))].type
        /\ \A i, j \in 1..Len(g.nodes) :
             i < j => Min(At(w, g.nodes[i])) < Min(At(w, g.nodes[j]))

C9_Witness ==
  /\ pc = "build_returned"
  /\ Len(triples) = 2
  /\ triples[1]["subject"] = "Paris" /\ "subject_type" \in DOMAIN triples[1]
  /\ triples[2]["object"] = "Paris" /\ "object_type" \in DOMAIN triples[2]
  /\ triples[2]["subject"] = "France"
  /\ g.attr["Paris"].group = "Country"
  /\ g.nodes[1] = "Paris"

ProvideContent == Msg("warning", "Please provide content to analyze.")

Rendered ==
  <<Msg("success", "Knowledge Graph Generated!"), Msg("html", "graph.html")>>

\* the messages without the st.error lines of parse_relations
Outcome == SelectSeq(messages, LAMBDA m : m.kind # "error")

\* C10: a request that does not fail in the extractor ends in one of three
\* outcomes: blank content, the "Please provide content" warning and no call
\* of the extractor; a non-empty list from parse_relations, the rendered
\* graph and the success message; an empty list, the "No relationships
\* found" warning and no call of build_graph or visualize_graph.
C10_ThreeOutcomes ==
  pc \in {"done", "crashed"} =>
    /\ pc = "done"
    /\ Strip(content) = <<>> =>
         (Outcome = <<ProvideContent>> /\ calls = <<>>)
    /\ (Strip(content) # <<>> /\ triples # <<>>) =>
         /\ Outcome = Rendered
         /\ calls = <<"extract_relations_gemini", "parse_relations",
                      "build_graph", "visualize_graph">>
    /\ (Strip(content) # <<>> /\ triples = <<>>) =>
         /\ Outcome = <<NoRelationships>>
         /\ calls = <<"extract_relations_gemini", "parse_relations">>

====
